---- MODULE Spec2Model ----
(***************************************************************************)
(* Model of the streaming find-and-replace iterator adapter `Replace` of   *)
(* src/src/lib.rs.  One caller pulls tokens with next(); next() pops from  *)
(* buffer_out and, when that is empty, runs fill_buffer, which consumes    *)
(* upstream tokens one at a time until a flush or a commit breaks the      *)
(* loop or the upstream is exhausted.  The caller stops at the first None  *)
(* (as collect() does in the tests).                                       *)
(*                                                                         *)
(* Stream positions are 1-based as in the code (index is incremented       *)
(* before use).  Rust slices are 0-based, TLA+ sequences 1-based, so the   *)
(* code's search_for[k] is search_for[k + 1] here.                         *)
(***************************************************************************)
EXTENDS Integers, Sequences, FiniteSets

\* ---- bounds of the checked instances ----
MaxInput == 6
MaxSearch == 4
MaxInputAll == 4
MaxSearchAll == 3

Tokens == {1, 2}

SeqsUpTo(n) == UNION {[1..k -> Tokens] : k \in 0..n}
SeqsFromTo(m, n) == UNION {[1..k -> Tokens] : k \in m..n}

ReplaceMenu == {<<>>, <<1>>, <<2, 1>>}
ReplaceMenuAll == {<<>>, <<2, 1>>}

\* ---- helpers ----
SetMin(S) == CHOOSE x \in S : \A y \in S : x <= y

Range(s) == {s[k] : k \in DOMAIN s}

VARIABLES
    iter,            \* upstream iterator: the tokens not yet consumed
    buffer_out,      \* VecDeque<T>: tokens decided for emission
    buffer_in,       \* Vec<T>: consumed tokens not yet decided
    replace_states,  \* Vec<ReplaceState>: [search_for, replace_with], fixed
    candidates,      \* per replace state: BTreeSet<usize> of start positions
    index,           \* number of upstream tokens consumed
    flushed_index,   \* watermark
    pc,              \* "idle" | "fill" | "pop" | "done" | "panic"
    out,             \* tokens returned by next() so far (Some values)
    input,           \* history: the whole upstream sequence
    pos_in,          \* history: stream position of each token of buffer_in
    origin,          \* history: for each token ever appended to buffer_out,
                     \* its stream position, or 0 for a replacement token
    commits,         \* history: the committed matches, in order
    consumed         \* history: upstream tokens consumed by the current
                     \* (or the last) call of next()

vars == <<iter, buffer_out, buffer_in, replace_states, candidates, index,
          flushed_index, pc, out, input, pos_in, origin, commits, consumed>>

\* Replacement::new: a (search_for, replace_with) pair
Replacement(s, r) == [search_for |-> s, replace_with |-> r]

\* the pairs drawn for a checked instance
ReplacementsOver(searches, menu) ==
    {Replacement(s, r) : s \in searches, r \in menu}

\* the pairs that replace a search sequence by itself (replace(P, P))
Identities(searches) == {Replacement(s, s) : s \in searches}

\* replace_all(): one state per replacement, in declaration order
StateLists(reps) ==
    {<<>>} \cup {<<p>> : p \in reps} \cup {<<p, q>> : p \in reps, q \in reps}

\* Replace::adapt
adapt(it, states) ==
    /\ iter = it
    /\ input = it
    /\ replace_states = states
    /\ candidates = [i \in DOMAIN states |-> {}]
    /\ buffer_out = <<>>
    /\ buffer_in = <<>>
    /\ index = 0
    /\ flushed_index = 0
    /\ pc = "idle"
    /\ out = <<>>
    /\ pos_in = <<>>
    /\ origin = <<>>
    /\ commits = <<>>
    /\ consumed = 0

\* iter.replace(search_for, replace_with), search_for non-empty
Init ==
    \E it \in SeqsUpTo(MaxInput) :
        \E p \in ReplacementsOver(SeqsFromTo(1, MaxSearch), ReplaceMenu)
                    \cup Identities(SeqsFromTo(1, MaxSearch)) :
            adapt(it, <<p>>)

\* iter.replace_all(replacements), every search_for non-empty
InitAll ==
    \E it \in SeqsUpTo(MaxInputAll) :
        \E states \in StateLists(
                ReplacementsOver(SeqsFromTo(1, MaxSearchAll), ReplaceMenuAll)) :
            adapt(it, states)

\* replace() or replace_all() with any search_for, the empty one included
InitUnchecked ==
    \E it \in SeqsUpTo(MaxInputAll) :
        LET reps == ReplacementsOver(SeqsUpTo(MaxSearchAll), ReplaceMenuAll)
            empties == {p \in reps : p.search_for = <<>>}
        IN  \E states \in {<<p>> : p \in reps}
                    \cup {<<p, q>> : p \in reps, q \in empties}
                    \cup {<<p, q>> : p \in empties, q \in reps} :
                adapt(it, states)

\* ---- fill_buffer: the per-token step ----

IndexNotIncremented(i) == i

\* self.index += 1
NextIndex(i) == i + 1

UnflushedFromStart(flush_index, flushed) == flush_index

\* let unflushed = flush_index - self.flushed_index
Unflushed(flush_index, flushed) == flush_index - flushed

\* the prune filter indexes search_for[index - start_index]; out of range
\* panics
PruneOutOfBounds(rs, c, idx) ==
    \E s \in c : idx - s + 1 > Len(rs.search_for)

\* search_for[0] on an empty slice panics
SeedOutOfBounds(rs) == Len(rs.search_for) = 0

StatePanics(rs, c, idx) == PruneOutOfBounds(rs, c, idx) \/ SeedOutOfBounds(rs)

PruneSeedNoPrune(rs, c, idx, item) ==
    IF rs.search_for[1] = item THEN c \cup {idx} ELSE c

PruneSeedElse(rs, c, idx, item) ==
    LET kept == {s \in c : rs.search_for[idx - s + 1] = item}
    IN  IF kept # {} THEN kept
        ELSE IF rs.search_for[1] = item THEN {idx} ELSE {}

\* prune the candidates that do not match item, then seed index
PruneSeed(rs, c, idx, item) ==
    LET kept == {s \in c : rs.search_for[idx - s + 1] = item}
    IN  IF rs.search_for[1] = item THEN kept \cup {idx} ELSE kept

\* the candidate sets after the for loop over replace_states, when the loop
\* panics at state number stop (0: no panic)
UpdateCandidates(states, cands, idx, item, stop) ==
    [i \in DOMAIN states |->
        IF stop = 0 \/ i < stop
        THEN PruneSeed(states[i], cands[i], idx, item)
        ELSE cands[i]]

FirstPanic(states, cands, idx) ==
    LET bad == {i \in DOMAIN states : StatePanics(states[i], cands[i], idx)}
    IN  IF bad = {} THEN 0 ELSE SetMin(bad)

CalcFlushableNoMinusOne(cands, idx) ==
    LET per == {IF cands[i] = {} THEN idx ELSE SetMin(cands[i]) :
                    i \in DOMAIN cands}
    IN  IF per = {} THEN 0 ELSE SetMin(per)

CalcFlushableEmptyIndex(cands, idx) ==
    LET per == {IF cands[i] = {} THEN idx ELSE SetMin(cands[i]) - 1 :
                    i \in DOMAIN cands}
    IN  IF per = {} THEN idx ELSE SetMin(per)

\* calc_flushable_index
calc_flushable_index(cands, idx) ==
    LET per == {IF cands[i] = {} THEN idx ELSE SetMin(cands[i]) - 1 :
                    i \in DOMAIN cands}
    IN  IF per = {} THEN 0 ELSE SetMin(per)

MatchesOffByOne(states, cands, idx, i) ==
    /\ cands[i] # {}
    /\ idx - SetMin(cands[i]) = Len(states[i].search_for)

\* whether the find closure accepts state i: its smallest candidate is a
\* full match ending at idx
Matches(states, cands, idx, i) ==
    /\ cands[i] # {}
    /\ idx - SetMin(cands[i]) + 1 = Len(states[i].search_for)

MatchingTermLast(states, cands, idx) ==
    LET hits == {i \in DOMAIN states : Matches(states, cands, idx, i)}
    IN  IF hits = {} THEN 0 ELSE CHOOSE i \in hits : \A j \in hits : j <= i

\* matching_term: the first state, in declaration order, that matches (0: None)
matching_term(states, cands, idx) ==
    LET hits == {i \in DOMAIN states : Matches(states, cands, idx, i)}
    IN  IF hits = {} THEN 0 ELSE SetMin(hits)

ClearNone(cands, m) == cands

ClearMatchedOnly(cands, m) ==
    [i \in DOMAIN cands |-> IF i = m THEN {} ELSE cands[i]]

\* the candidate sets after a commit by state m: all cleared
ClearCandidates(cands, m) == [i \in DOMAIN cands |-> {}]

\* history: the states that hold a candidate completed at idx
Completing(states, cands, idx) ==
    {i \in DOMAIN states :
        \E s \in cands[i] : idx - s + 1 = Len(states[i].search_for)}

Zeros(n) == [k \in 1..n |-> 0]

NextAlwaysFills ==
    /\ pc = "idle"
    /\ Len(buffer_out) # 0
    /\ pc' = "fill"
    /\ consumed' = 0
    /\ UNCHANGED <<iter, buffer_out, buffer_in, replace_states, candidates,
                   index, flushed_index, out, input, pos_in, origin, commits>>

\* next(), buffer_out non-empty: pop_front and return it
NextPopReady ==
    /\ pc = "idle"
    /\ Len(buffer_out) # 0
    /\ out' = Append(out, Head(buffer_out))
    /\ buffer_out' = Tail(buffer_out)
    /\ consumed' = 0
    /\ UNCHANGED <<iter, buffer_in, replace_states, candidates, index,
                   flushed_index, pc, input, pos_in, origin, commits>>

\* next(), buffer_out empty: call fill_buffer
NextEnterFill ==
    /\ pc = "idle"
    /\ Len(buffer_out) = 0
    /\ pc' = "fill"
    /\ consumed' = 0
    /\ UNCHANGED <<iter, buffer_out, buffer_in, replace_states, candidates,
                   index, flushed_index, out, input, pos_in, origin, commits>>

\* one iteration of the 'consume loop: iter.next() returned Some(item)
FillBufferStep ==
    /\ pc = "fill"
    /\ iter # <<>>
    /\ LET item == Head(iter)
           idx == NextIndex(index)
           bin == Append(buffer_in, item)
           pin == Append(pos_in, idx)
           stop == FirstPanic(replace_states, candidates, idx)
           cands == UpdateCandidates(replace_states, candidates, idx, item, stop)
       IN  /\ iter' = Tail(iter)
           /\ index' = idx
           /\ consumed' = consumed + 1
           /\ IF stop # 0
              THEN /\ pc' = "panic"
                   /\ candidates' = cands
                   /\ buffer_in' = bin
                   /\ pos_in' = pin
                   /\ UNCHANGED <<buffer_out, flushed_index, origin, commits>>
              ELSE LET flush_index == calc_flushable_index(cands, idx)
                       m == matching_term(replace_states, cands, idx)
                       unflushed == Unflushed(flush_index, flushed_index)
                   IN  IF m = 0
                       THEN IF flush_index > flushed_index
                            THEN IF unflushed > Len(bin)
                                 THEN \* drain(0 .. unflushed) out of range
                                      /\ pc' = "panic"
                                      /\ candidates' = cands
                                      /\ buffer_in' = bin
                                      /\ pos_in' = pin
                                      /\ UNCHANGED <<buffer_out, flushed_index,
                                                     origin, commits>>
                                 ELSE /\ buffer_out' =
                                            buffer_out \o SubSeq(bin, 1, unflushed)
                                      /\ origin' =
                                            origin \o SubSeq(pin, 1, unflushed)
                                      /\ buffer_in' =
                                            SubSeq(bin, unflushed + 1, Len(bin))
                                      /\ pos_in' =
                                            SubSeq(pin, unflushed + 1, Len(pin))
                                      /\ flushed_index' = flush_index
                                      /\ candidates' = cands
                                      /\ pc' = "pop"
                                      /\ UNCHANGED commits
                            ELSE /\ pc' = "fill"
                                 /\ candidates' = cands
                                 /\ buffer_in' = bin
                                 /\ pos_in' = pin
                                 /\ UNCHANGED <<buffer_out, flushed_index,
                                                origin, commits>>
                       ELSE LET rw == replace_states[m].replace_with
                            IN  /\ candidates' = ClearCandidates(cands, m)
                                /\ buffer_out' = buffer_out \o rw
                                /\ origin' = origin \o Zeros(Len(rw))
                                /\ buffer_in' = <<>>
                                /\ pos_in' = <<>>
                                /\ flushed_index' = idx
                                /\ pc' = "pop"
                                /\ commits' = Append(commits,
                                      [rank |-> m,
                                       start |-> SetMin(cands[m]),
                                       end |-> idx,
                                       completing |->
                                           Completing(replace_states, cands, idx),
                                       dropped |-> Range(pin)])
    /\ UNCHANGED <<replace_states, out, input>>

\* iter.next() returned None: the while let loop ends
FillBufferExhausted ==
    /\ pc = "fill"
    /\ iter = <<>>
    /\ pc' = "pop"
    /\ UNCHANGED <<iter, buffer_out, buffer_in, replace_states, candidates,
                   index, flushed_index, out, input, pos_in, origin, commits,
                   consumed>>

\* next() after fill_buffer: buffer_out.pop_front(); None ends the caller's loop
NextReturn ==
    /\ pc = "pop"
    /\ IF Len(buffer_out) # 0
       THEN /\ out' = Append(out, Head(buffer_out))
            /\ buffer_out' = Tail(buffer_out)
            /\ pc' = "idle"
       ELSE /\ pc' = "done"
            /\ UNCHANGED <<out, buffer_out>>
    /\ UNCHANGED <<iter, buffer_in, replace_states, candidates, index,
                   flushed_index, input, pos_in, origin, commits, consumed>>

Next ==
    \/ NextPopReady
    \/ NextEnterFill
    \/ FillBufferStep
    \/ FillBufferExhausted
    \/ NextReturn

Spec == Init /\ [][Next]_vars

SpecAll == InitAll /\ [][Next]_vars

SpecUnchecked == InitUnchecked /\ [][Next]_vars

TypeOK ==
    /\ pc \in {"idle", "fill", "pop", "done", "panic"}
    /\ index \in 0..Len(input)
    /\ flushed_index \in 0..Len(input)
    /\ Len(pos_in) = Len(buffer_in)
    /\ Len(origin) = Len(out) + Len(buffer_out)

\* ---- definitions the properties are stated with ----

Last(s) == s[Len(s)]

\* position p lies inside the span of a committed match
InSpan(p) == \E k \in DOMAIN commits : commits[k].start <= p /\ p <= commits[k].end

Positions(n) == [k \in 1..n |-> k]

IsVerbatim(p) == p > 0

NotInSpan(p) == ~InSpan(p)

\* the stream positions of the tokens put into buffer_out verbatim, in order
VerbatimPositions == SelectSeq(origin, IsVerbatim)

\* the positions of the input outside every committed span, in order
UnmatchedPositions == SelectSeq(Positions(Len(input)), NotInSpan)

\* end of the last committed span (0: none yet)
LastEnd == IF commits = <<>> THEN 0 ELSE Last(commits).end

\* sf occurs in s starting at position p
OccursAt(sf, s, p) ==
    /\ p >= 1
    /\ p + Len(sf) - 1 <= Len(s)
    /\ SubSeq(s, p, p + Len(sf) - 1) = sf

Occurs(sf, s) == \E p \in 1..Len(s) : OccursAt(sf, s, p)

IsProperPrefix(a, b) == Len(a) < Len(b) /\ SubSeq(b, 1, Len(a)) = a

\* state j is declared after a state whose search_for is a proper prefix of its own
Shadowed(j) ==
    \E i \in DOMAIN replace_states :
        i < j /\ IsProperPrefix(replace_states[i].search_for,
                                replace_states[j].search_for)

\* reference: replace every non-overlapping occurrence of sf in s, leftmost
\* first, scanning resumes right after an occurrence
RECURSIVE ReplaceReference(_, _, _)
ReplaceReference(s, sf, rw) ==
    IF Len(s) < Len(sf) THEN s
    ELSE IF SubSeq(s, 1, Len(sf)) = sf
         THEN rw \o ReplaceReference(SubSeq(s, Len(sf) + 1, Len(s)), sf, rw)
         ELSE <<Head(s)>> \o ReplaceReference(Tail(s), sf, rw)

\* ---- properties ----

\* C1 (as claimed): token conservation.  When next() has returned None after
\* the whole input was consumed, with one or more patterns, the tokens returned
\* verbatim are exactly the input tokens outside every committed span,
\* unchanged and in their original order.
C1_TokenConservation ==
    (pc = "done" /\ iter = <<>> /\ Len(replace_states) >= 1) =>
        /\ VerbatimPositions = UnmatchedPositions
        /\ \A k \in DOMAIN out : origin[k] > 0 => out[k] = input[origin[k]]

\* C2 (as claimed): end-of-stream drain.  When next() returns None with the
\* upstream exhausted, no token is left pending in buffer_in: every token
\* after the last committed span has been returned verbatim.
C2_EndOfStreamDrain ==
    (pc = "done" /\ iter = <<>>) =>
        /\ buffer_in = <<>>
        /\ \A p \in (LastEnd + 1)..Len(input) : p \in Range(origin)

\* C3 (as claimed): a single pattern that has no complete occurrence in the
\* input leaves the input unchanged.
C3_NoOccurrenceNoOp ==
    (pc = "done" /\ ~Occurs(replace_states[1].search_for, input)) =>
        out = input

\* C4 (as claimed): identity round trip, replace(P, P) returns the input.
C4_IdentityRoundTrip ==
    (pc = "done"
        /\ replace_states[1].replace_with = replace_states[1].search_for) =>
        out = input

\* C5 (as claimed): the tokens returned for a single pattern, once the whole
\* input was consumed and next() has returned None, equal the reference
\* left-to-right non-overlapping replacement of the input.
C5_AgreesWithReference ==
    (pc = "done" /\ iter = <<>>) =>
        out = ReplaceReference(input, replace_states[1].search_for,
                               replace_states[1].replace_with)

\* C6: committed matches never overlap.  The committed spans are pairwise
\* disjoint and in increasing order, and no candidate that started at or
\* before the end of a committed span survives the commit (right after a
\* commit every candidate set is empty).
C6_CommitsDisjoint ==
    /\ \A j, k \in DOMAIN commits : j < k => commits[j].end < commits[k].start
    /\ \A k \in DOMAIN commits : commits[k].start <= commits[k].end
    /\ \A i \in DOMAIN candidates : \A s \in candidates[i] : s > LastEnd

\* C6 witness: a commit has skipped an occurrence of its own pattern that
\* starts inside the committed span (a self-overlapping pattern), and a
\* second match has been committed after it.
C6_Witness ==
    /\ Len(commits) >= 2
    /\ \E p \in (commits[1].start + 1)..commits[1].end :
          OccursAt(replace_states[commits[1].rank].search_for, input, p)

\* C7: declaration-order tie-break.  A step at which two or more patterns
\* hold a completed candidate commits the completing pattern of lowest
\* declaration index, and appends exactly that pattern's replace_with to
\* buffer_out.
C7_TieBreak ==
    [][(commits' # commits /\ Cardinality(Last(commits').completing) >= 2) =>
          LET c == Last(commits')
              w == SetMin(c.completing)
          IN  /\ c.rank = w
              /\ buffer_out' = buffer_out \o replace_states[w].replace_with]_vars

\* C7 witness: two patterns with different replacements completed at the
\* same token and the match was committed.
C7_Witness ==
    /\ commits # <<>>
    /\ Last(commits).completing = {1, 2}
    /\ replace_states[1].replace_with # replace_states[2].replace_with
    /\ Last(commits).end = index
    /\ pc = "pop"

\* the pattern of a later state that state i shadows occurs at position p
LaterOccursAt(i, p) ==
    \E j \in DOMAIN replace_states :
        /\ i < j
        /\ IsProperPrefix(replace_states[i].search_for,
                          replace_states[j].search_for)
        /\ OccursAt(replace_states[j].search_for, input, p)

\* C8 (as claimed): prefix shadowing.  A pattern declared after a proper
\* prefix of itself is never the committed pattern, and where the later
\* pattern occurs at the anchor of the earlier pattern's commit, the token
\* that follows the committed span is emitted untouched once it is resolved.
C8_PrefixShadowingOriginal ==
    \A k \in DOMAIN commits :
        LET c == commits[k]
        IN  /\ ~Shadowed(c.rank)
            /\ (LaterOccursAt(c.rank, c.start) /\ flushed_index >= c.end + 1) =>
                   c.end + 1 \in Range(origin)

\* C8 (amended): a pattern declared after a proper prefix of itself is never
\* the committed pattern; where the later pattern occurs at the anchor, the
\* commit is the earlier pattern's and its span ends with the earlier
\* pattern's last token, so the following token is outside the span and is
\* scanned afresh.
C8_PrefixShadowing ==
    \A k \in DOMAIN commits :
        LET c == commits[k]
        IN  /\ ~Shadowed(c.rank)
            /\ LaterOccursAt(c.rank, c.start) =>
                   c.end = c.start + Len(replace_states[c.rank].search_for) - 1

\* C8 witness: the later pattern occurs in the input at the anchor of a commit
\* of the pattern that shadows it, and the stream has been consumed past the
\* end of that occurrence.
C8_Witness ==
    \E k \in DOMAIN commits :
        \E j \in DOMAIN replace_states :
            /\ commits[k].rank < j
            /\ IsProperPrefix(replace_states[commits[k].rank].search_for,
                              replace_states[j].search_for)
            /\ OccursAt(replace_states[j].search_for, input, commits[k].start)
            /\ index >= commits[k].start + Len(replace_states[j].search_for) - 1

\* C9 (as claimed): next() returns None only when the upstream is exhausted.
C9_NoneOnlyAtEndOfInput ==
    pc = "done" => iter = <<>>

\* C10 (as claimed): a zero-length search pattern is rejected at construction:
\* the engine never exists in a running state with an empty search_for, and
\* no upstream token is consumed.
C10_ZeroLengthRejected ==
    (\E i \in DOMAIN replace_states : replace_states[i].search_for = <<>>) =>
        (pc = "panic" /\ index = 0)

\* some candidate is live
SomeCandidate == \E i \in DOMAIN candidates : candidates[i] # {}

\* C11: lazy pull.  A call of next() made while buffer_out is non-empty only
\* pops and returns the front of buffer_out: it consumes no upstream token and
\* leaves index, flushed_index, buffer_in and every candidate set unchanged.
\* A call that consumes stops consuming at the first step that flushes or
\* commits: that step ends fill_buffer, and the pop that follows consumes
\* nothing.
C11_LazyPull ==
    [][/\ (pc = "idle" /\ Len(buffer_out) # 0) =>
             /\ out' = Append(out, Head(buffer_out))
             /\ buffer_out' = Tail(buffer_out)
             /\ UNCHANGED <<iter, index, flushed_index, buffer_in, candidates>>
       /\ (pc = "fill" /\ (flushed_index' # flushed_index \/ commits' # commits)) =>
             pc' = "pop"
       /\ pc = "pop" => UNCHANGED <<iter, index, flushed_index, buffer_in,
                                    candidates>>]_vars

\* C11 witness: the last call of next() returned a token without consuming
\* anything, while input was pending, a candidate was live and the upstream
\* still had tokens.
C11_Witness ==
    /\ pc = "idle"
    /\ consumed = 0
    /\ out # <<>>
    /\ buffer_in # <<>>
    /\ iter # <<>>
    /\ SomeCandidate

\* C12: candidate-set invariant.  No step panics on an index out of bounds,
\* and after every step each candidate s of each pattern satisfies
\* flushed_index < s <= index, index - s < len(search_for), and the consumed
\* tokens at positions s..index are the first index - s + 1 tokens of
\* search_for.
C12_CandidateInvariant ==
    /\ pc # "panic"
    /\ \A i \in DOMAIN candidates : \A s \in candidates[i] :
          /\ flushed_index < s
          /\ s <= index
          /\ index - s < Len(replace_states[i].search_for)
          /\ SubSeq(input, s, index) =
                SubSeq(replace_states[i].search_for, 1, index - s + 1)

\* C12 witness: after an earlier flush, a pattern holds two live candidates
\* at once, the older one having survived a prune.
C12_Witness ==
    /\ pc = "fill"
    /\ flushed_index > 0
    /\ \E i \in DOMAIN candidates : Cardinality(candidates[i]) >= 2

\* C13: pending-buffer invariant.  After every step the length of buffer_in
\* is index - flushed_index and buffer_in holds the consumed tokens at
\* positions flushed_index + 1 .. index in order; the drain never exceeds the
\* length of buffer_in (no panic).
C13_PendingBuffer ==
    /\ pc # "panic"
    /\ Len(buffer_in) = index - flushed_index
    /\ buffer_in = SubSeq(input, flushed_index + 1, index)
    /\ pos_in = [k \in 1..(index - flushed_index) |-> flushed_index + k]

\* C13 witness: a second flush has drained part of the pending tokens and
\* left the rest pending.
C13_Witness ==
    /\ pc = "pop"
    /\ commits = <<>>
    /\ Len(buffer_out) >= 1
    /\ Len(buffer_out) < flushed_index
    /\ buffer_in # <<>>

\* C14: watermark monotonicity.  In every step flushed_index does not
\* decrease and does not exceed index, and index grows by exactly the number
\* of upstream tokens the step consumed, which is 0 or 1.
C14_WatermarkMonotone ==
    [][/\ flushed_index' >= flushed_index
       /\ flushed_index' <= index'
       /\ index' - index = Len(iter) - Len(iter')
       /\ index' - index \in {0, 1}]_vars

\* C14 witness: the watermark was advanced by a commit and later again by a
\* flush that left consumed tokens pending.
C14_Witness ==
    /\ commits # <<>>
    /\ flushed_index > LastEnd
    /\ flushed_index < index

\* L: the length of the longest search_for
MaxSetElem(S) == CHOOSE x \in S : \A y \in S : y <= x

LongestSearch ==
    MaxSetElem({Len(replace_states[i].search_for) : i \in DOMAIN replace_states})

\* C15: bounded delay.  With at least one pattern, a call of next() consumes
\* at most L upstream tokens, and at every pull boundary buffer_in holds at
\* most L - 1 tokens.
C15_BoundedDelay ==
    Len(replace_states) >= 1 =>
        /\ consumed <= LongestSearch
        /\ pc \in {"idle", "done"} => Len(buffer_in) <= LongestSearch - 1

\* C15 witness: a call of next() consumed exactly L >= 2 tokens before a flush
\* ended it, and left L - 1 tokens pending.
C15_Witness ==
    /\ Len(replace_states) >= 1
    /\ pc = "idle"
    /\ LongestSearch >= 2
    /\ consumed = LongestSearch
    /\ Len(buffer_in) = LongestSearch - 1

\* C16: the watermark tracks the oldest candidate.  With at least one
\* pattern, at every pull boundary flushed_index is the smallest candidate of
\* all patterns minus one when a candidate is live, and index when none is.
C16_WatermarkTracksOldest ==
    (Len(replace_states) >= 1 /\ pc \in {"idle", "done"}) =>
        IF SomeCandidate
        THEN flushed_index = SetMin(UNION Range(candidates)) - 1
        ELSE flushed_index = index

\* C16 witness: after a flush, two or more tokens are pending behind the
\* watermark for a live candidate.
C16_Witness ==
    /\ Len(replace_states) >= 1
    /\ pc = "idle"
    /\ SomeCandidate
    /\ flushed_index >= 1
    /\ index - flushed_index >= 2

\* C17 (as claimed): a commit discards only the matched tokens: the tokens
\* removed by buffer_in.clear() are exactly those of the committed span.
C17_CommitDiscardsOnlyMatch ==
    \A k \in DOMAIN commits :
        commits[k].dropped = commits[k].start..commits[k].end

\* C18: the emitted prefix refines the reference.  For a single pattern with
\* a non-empty replace_with, at every pull boundary the tokens returned so
\* far followed by buffer_out are the reference replacement of the input
\* positions 1..flushed_index, and no committed span crosses flushed_index.
C18_PrefixRefinesReference ==
    (pc \in {"idle", "done"} /\ replace_states[1].replace_with # <<>>) =>
        /\ out \o buffer_out =
              ReplaceReference(SubSeq(input, 1, flushed_index),
                               replace_states[1].search_for,
                               replace_states[1].replace_with)
        /\ \A k \in DOMAIN commits : commits[k].end <= flushed_index

\* C18 witness: at a pull boundary, after a commit and a later flush, tokens
\* are pending for a live candidate.
C18_Witness ==
    /\ pc = "idle"
    /\ replace_states[1].replace_with # <<>>
    /\ commits # <<>>
    /\ flushed_index > LastEnd
    /\ buffer_in # <<>>

\* C19: an empty pattern list emits nothing.  No flush and no commit ever
\* happens, buffer_out stays empty, the first next() consumes the whole
\* upstream into buffer_in and returns None.
C19_EmptyListEmitsNothing ==
    Len(replace_states) = 0 =>
        /\ buffer_out = <<>>
        /\ out = <<>>
        /\ flushed_index = 0
        /\ commits = <<>>
        /\ buffer_in = SubSeq(input, 1, index)
        /\ pc \in {"pop", "done"} => (iter = <<>> /\ consumed = Len(input))

\* C19 witness: next() has returned None for an empty pattern list on an
\* input of two or more tokens.
C19_Witness ==
    /\ Len(replace_states) = 0
    /\ pc = "done"
    /\ Len(input) >= 2
====
